---- MODULE Spec2Model ----
(***************************************************************************)
(* The NIRD semantic search service of src/module.py: the index built at   *)
(* import time and the handler chercher_dans_nird of POST /nird.           *)
(*                                                                         *)
(* A text is a sequence of one-character strings.  A Counter is a function *)
(* from words (sequences of characters) to positive counts.  A float is a  *)
(* record [m, e] that stands for m * 2^e with a 53-bit m, and the float    *)
(* operations round as IEEE-754 binary64 does.  The confiance of a         *)
(* response, round(score, 3), is kept as an integer number of thousandths. *)
(* The timestamp of a response (datetime.now()) is left out.               *)
(***************************************************************************)
EXTENDS Integers, Sequences, FiniteSets, TLC

VARIABLES
  data,             \* the "chunks" of larousse_tokens.json, as read at import
  chunks,           \* module global chunks
  vecteurs_chunks,  \* module global vecteurs_chunks
  phase,            \* "import", "serving" or "import_failed"
  requests,         \* the question strings clients may post
  workers,          \* the threads that run the handler
  pc,               \* per worker: the handler's position
  payload,          \* per worker: payload.question
  question,         \* per worker: local question
  vec_q,            \* per worker: local vec_q
  i,                \* per worker: entries of vecteurs_chunks already scanned
  meilleur_score,   \* per call frame: local meilleur_score
  meilleur_chunk,   \* per call frame: local meilleur_chunk
  texte,            \* per worker: local texte (or the fallback contexte)
  response,         \* per worker: the ReponseNIRD returned
  trace             \* per worker: the positions the call went through (history)

vars == <<data, chunks, vecteurs_chunks, phase, requests, workers, pc, payload,
          question, vec_q, i, meilleur_score, meilleur_chunk, texte, response, trace>>

(***************************************************************************)
(* Bounds of the inputs.                                                   *)
(***************************************************************************)
MaxCorpus == 2
MaxQuestionLen == 2

(***************************************************************************)
(* Characters.                                                             *)
(***************************************************************************)
Whitespace == {" ", "\t", "\n", "\r"}

ToLower ==
  [c \in {"A", "B", "C", "D", "E", "F", "G", "H", "I", "J", "K", "L", "M", "N", "O",
          "P", "Q", "R", "S", "T", "U", "V", "W", "X", "Y", "Z", "É", "À", "Ù", "È"} |->
     CASE c = "A" -> "a" [] c = "B" -> "b" [] c = "C" -> "c" [] c = "D" -> "d"
       [] c = "E" -> "e" [] c = "F" -> "f" [] c = "G" -> "g" [] c = "H" -> "h"
       [] c = "I" -> "i" [] c = "J" -> "j" [] c = "K" -> "k" [] c = "L" -> "l"
       [] c = "M" -> "m" [] c = "N" -> "n" [] c = "O" -> "o" [] c = "P" -> "p"
       [] c = "Q" -> "q" [] c = "R" -> "r" [] c = "S" -> "s" [] c = "T" -> "t"
       [] c = "U" -> "u" [] c = "V" -> "v" [] c = "W" -> "w" [] c = "X" -> "x"
       [] c = "Y" -> "y" [] c = "Z" -> "z" [] c = "É" -> "é" [] c = "À" -> "à"
       [] c = "Ù" -> "ù" [] c = "È" -> "è"]

WordChars ==
  DOMAIN ToLower \cup {ToLower[c] : c \in DOMAIN ToLower}
    \cup {"0", "1", "2", "3", "4", "5", "6", "7", "8", "9", "_"}

\* the regular expression class \w
IsWordChar(c) == c \in WordChars

\* str.lower()
lower(s) == [k \in 1..Len(s) |-> IF s[k] \in DOMAIN ToLower THEN ToLower[s[k]] ELSE s[k]]

Min(S) == CHOOSE m \in S : \A x \in S : m <= x
Max(S) == CHOOSE m \in S : \A x \in S : m >= x

\* str.strip()
strip(s) ==
  LET solid == {k \in 1..Len(s) : s[k] \notin Whitespace}
  IN IF solid = {} THEN <<>> ELSE SubSeq(s, Min(solid), Max(solid))

\* mot in s  (substring test)
Contient(s, mot) ==
  \E k \in 0..(Len(s) - Len(mot)) : SubSeq(s, k + 1, k + Len(mot)) = mot

(***************************************************************************)
(* nettoyer_et_vectoriser.                                                 *)
(***************************************************************************)
stopwords ==
  {<<"l", "e">>, <<"l", "a">>, <<"l", "e", "s">>, <<"d", "e">>, <<"d", "u">>, <<"d", "e", "s">>, <<"u", "n">>, <<"u", "n", "e">>, <<"e", "t">>, <<"o", "u">>,
   <<"à">>, <<"a", "u">>, <<"a", "u", "x">>, <<"e", "n">>, <<"d", "a", "n", "s">>, <<"s", "u", "r">>, <<"p", "o", "u", "r">>, <<"p", "a", "r">>, <<"a", "v", "e", "c">>,
   <<"s", "a", "n", "s">>, <<"s", "o", "u", "s">>, <<"c", "h", "e", "z">>, <<"c", "e">>, <<"c", "e", "t", "t", "e">>, <<"c", "e", "s">>, <<"s", "o", "n">>, <<"s", "a">>, <<"s", "e", "s">>,
   <<"m", "o", "n">>, <<"m", "a">>, <<"m", "e", "s">>, <<"t", "o", "n">>, <<"t", "a">>, <<"t", "e", "s">>, <<"j", "e">>, <<"t", "u">>, <<"i", "l">>, <<"e", "l", "l", "e">>,
   <<"n", "o", "u", "s">>, <<"v", "o", "u", "s">>, <<"i", "l", "s">>, <<"e", "l", "l", "e", "s">>, <<"q", "u", "i">>, <<"q", "u", "e">>, <<"q", "u", "o", "i">>, <<"d", "o", "n", "t">>, <<"o", "ù">>,
   <<"q", "u", "a", "n", "d">>, <<"c", "o", "m", "m", "e", "n", "t">>, <<"m", "a", "i", "s">>, <<"e", "s", "t">>, <<"s", "o", "n", "t">>, <<"p", "a", "s">>, <<"p", "l", "u", "s">>, <<"t", "r", "è", "s">>}

\* the variant of MotGarde that keeps only the words longer than 4
MotGardeLong(m) == m \notin stopwords /\ Len(m) > 4

\* the filter of the list comprehension
MotGarde(m) == m \notin stopwords /\ Len(m) > 2

\* the places where the matches of \w+ start and end
DebutsMots(s) == {b \in 1..Len(s) : IsWordChar(s[b]) /\ (b = 1 \/ ~IsWordChar(s[b - 1]))}
FinsMots(s) == {e \in 1..Len(s) : IsWordChar(s[e]) /\ (e = Len(s) \/ ~IsWordChar(s[e + 1]))}

nettoyer_et_vectoriser(s) ==
  LET t == lower(s)
      fins == FinsMots(t)
      mot(b) == SubSeq(t, b, Min({e \in fins : e >= b}))
      gardes == {b \in DebutsMots(t) : MotGarde(mot(b))}
  IN [m \in {mot(b) : b \in gardes} |-> Cardinality({b \in gardes : mot(b) = m})]

(***************************************************************************)
(* Natural numbers of any size: sequences of digits in base 2^15, the      *)
(* least significant first, with no leading zero digit.  They carry the    *)
(* significands of Python's floats.                                        *)
(***************************************************************************)
Base == 32768

Limb(a, k) == IF k <= Len(a) THEN a[k] ELSE 0

BNorm(a) ==
  LET nz == {k \in 1..Len(a) : a[k] # 0}
  IN IF nz = {} THEN <<>> ELSE SubSeq(a, 1, Max(nz))

BFromInt(n) == BNorm(<<n % Base, (n \div Base) % Base, n \div (Base * Base)>>)

BCmp(a, b) ==
  IF Len(a) # Len(b) THEN (IF Len(a) > Len(b) THEN 1 ELSE -1)
  ELSE LET diff == {k \in 1..Len(a) : a[k] # b[k]}
       IN IF diff = {} THEN 0 ELSE IF a[Max(diff)] > b[Max(diff)] THEN 1 ELSE -1

\* the one element of a singleton (the sets below bind a value to a name)
Seul(S) == CHOOSE v \in S : TRUE

\* a + b: a carry enters digit k from the nearest lower digit whose sum is not Base - 1
BAdd(a, b) ==
  LET n == IF Len(a) > Len(b) THEN Len(a) ELSE Len(b)
      sum == [k \in 1..n |-> Limb(a, k) + Limb(b, k)]
      carry == [k \in 1..(n + 1) |->
                  IF \E j \in 1..(k - 1) :
                       sum[j] >= Base /\ \A h \in (j + 1)..(k - 1) : sum[h] = Base - 1
                  THEN 1 ELSE 0]
  IN BNorm([k \in 1..(n + 1) |-> ((IF k <= n THEN sum[k] ELSE 0) + carry[k]) % Base])

\* a - b, for a >= b
BSub(a, b) ==
  LET borrow == [k \in 1..Len(a) |->
                   IF \E j \in 1..(k - 1) :
                        a[j] < Limb(b, j) /\ \A h \in (j + 1)..(k - 1) : a[h] = Limb(b, h)
                   THEN 1 ELSE 0]
  IN BNorm([k \in 1..Len(a) |-> (a[k] - Limb(b, k) - borrow[k] + Base) % Base])

\* a * d, for a digit d
BMulSmall(a, d) ==
  BAdd([k \in 1..Len(a) |-> (a[k] * d) % Base],
       <<0>> \o [k \in 1..Len(a) |-> (a[k] * d) \div Base])

\* a * Base^n
BShlLimbs(a, n) == IF a = <<>> THEN <<>> ELSE [k \in 1..n |-> 0] \o a

RECURSIVE BMulR(_, _, _, _)
BMulR(a, b, k, acc) ==
  IF k > Len(b) THEN acc
  ELSE Seul({BMulR(a, b, k + 1, v) : v \in {BAdd(acc, BShlLimbs(BMulSmall(a, b[k]), k - 1))}})

BMul(a, b) == BMulR(a, b, 1, <<>>)

\* a * 2^bits
BShl(a, bits) == BShlLimbs(BMulSmall(a, 2 ^ (bits % 15)), bits \div 15)

\* a \div 2^bits
BShr(a, bits) ==
  LET w == bits \div 15
      r == bits % 15
      n == Len(a) - w
  IN IF n <= 0 THEN <<>>
     ELSE BNorm([k \in 1..n |->
                   (a[k + w] \div 2 ^ r) + (Limb(a, k + w + 1) % 2 ^ r) * 2 ^ (15 - r)])

\* a % 2^bits
BLow(a, bits) == BSub(a, BShl(BShr(a, bits), bits))

BitLenDigit(x) == CHOOSE n \in 0..15 : x < 2 ^ n /\ (n = 0 \/ x >= 2 ^ (n - 1))

\* the number of bits of a
BBitLen(a) == IF a = <<>> THEN 0 ELSE 15 * (Len(a) - 1) + BitLenDigit(a[Len(a)])

\* the greatest digit d with b * d <= cur: the estimate from the top digits is at most
\* two too large when b's top digit is at least Base / 2
Digit(cur, b) ==
  LET est == (Limb(cur, Len(b) + 1) * Base + Limb(cur, Len(b))) \div b[Len(b)]
      top == IF est > Base - 1 THEN Base - 1 ELSE est
  IN IF BCmp(BMulSmall(b, top), cur) <= 0 THEN top
     ELSE IF BCmp(BMulSmall(b, top - 1), cur) <= 0 THEN top - 1
     ELSE top - 2

\* long division, the digits of a from the most significant
RECURSIVE BDivR(_, _, _, _, _)
BDivR(a, b, k, rem, q) ==
  IF k = 0 THEN [q |-> BNorm(q), r |-> rem]
  ELSE Seul({Seul({BDivR(a, b, k - 1, BSub(cur, BMulSmall(b, d)), <<d>> \o q) :
                     d \in {Digit(cur, b)}}) :
               cur \in {BNorm(<<a[k]>> \o rem)}})

\* q = a \div b, and r = <<>> exactly when b divides a
BDivMod(a, b) ==
  Seul({BDivR(aa, bb, Len(aa), <<>>, <<>>) :
          aa \in {BShl(a, 15 - BitLenDigit(b[Len(b)]))},
          bb \in {BShl(b, 15 - BitLenDigit(b[Len(b)]))}})

RECURSIVE BIsqrtR(_, _)
BIsqrtR(n, x) ==
  Seul({IF BCmp(y, x) >= 0 THEN x ELSE BIsqrtR(n, y) :
          y \in {BShr(BAdd(x, BDivMod(n, x).q), 1)}})

\* the integer square root (Newton's iteration from above)
BIsqrt(n) == IF n = <<>> THEN <<>> ELSE BIsqrtR(n, BShl(<<1>>, (BBitLen(n) + 1) \div 2))

(***************************************************************************)
(* Python floats (IEEE-754 binary64, round to nearest, ties to even).  The *)
(* record [m, e] is the float m * 2^e: m has exactly 53 bits, or is <<>>   *)
(* for 0.0.  Only floats >= 0 in the normal range occur.                   *)
(***************************************************************************)
\* the float 0.0
Zero == [m |-> <<>>, e |-> 0]

\* n \div 2^k rounded to the nearest integer, a half (with nothing sticky) to the even one
BRoundShr(n, k, sticky) ==
  LET q == BShr(n, k)
      c == BCmp(BLow(n, k), BShl(<<1>>, k - 1))
  IN IF c > 0 \/ (c = 0 /\ (sticky \/ Limb(q, 1) % 2 = 1)) THEN BAdd(q, <<1>>) ELSE q

\* the float nearest to n * 2^e (plus, if sticky, a fraction of 2^e less than one)
DRoundV(n, e, sticky) ==
  IF n = <<>> THEN Zero
  ELSE LET len == BBitLen(n)
       IN IF len <= 53 THEN [m |-> BShl(n, 53 - len), e |-> e - (53 - len)]
          ELSE Seul({IF BBitLen(q) > 53 THEN [m |-> BShr(q, 1), e |-> e + (len - 53) + 1]
                     ELSE [m |-> q, e |-> e + (len - 53)] :
                       q \in {BRoundShr(n, len - 53, sticky)}})

DRound(n, e, sticky) == Seul({DRoundV(v, e, sticky) : v \in {n}})

\* float(n), for an int n >= 0
DFromInt(n) == DRound(BFromInt(n), 0, FALSE)

\* x * y
DMulV(x, y) ==
  IF x.m = <<>> \/ y.m = <<>> THEN Zero ELSE DRound(BMul(x.m, y.m), x.e + y.e, FALSE)

DMul(x, y) == Seul({DMulV(u, v) : u \in {x}, v \in {y}})

\* x / y, for y # 0.0
DDivV(x, y) ==
  IF x.m = <<>> THEN Zero
  ELSE Seul({DRound(qr.q, x.e - y.e - 56, qr.r # <<>>) : qr \in {BDivMod(BShl(x.m, 56), y.m)}})

DDiv(x, y) == Seul({DDivV(u, v) : u \in {x}, v \in {y}})

\* x + y
DAddV(x, y) ==
  IF x.m = <<>> THEN y
  ELSE IF y.m = <<>> THEN x
  ELSE LET e == IF x.e < y.e THEN x.e ELSE y.e
       IN DRound(BAdd(BShl(x.m, x.e - e), BShl(y.m, y.e - e)), e, FALSE)

DAdd(x, y) == Seul({DAddV(u, v) : u \in {x}, v \in {y}})

\* math.sqrt(x)
DSqrtV(x) ==
  IF x.m = <<>> THEN Zero
  ELSE LET t == 58 + ((x.e + 2048) % 2)
       IN Seul({Seul({DRound(r, (x.e - t) \div 2, BMul(r, r) # n) : r \in {BIsqrt(n)}}) :
                  n \in {BShl(x.m, t)}})

DSqrt(x) == Seul({DSqrtV(u) : u \in {x}})

\* x > y
DGT(x, y) ==
  IF x.m = <<>> THEN FALSE
  ELSE IF y.m = <<>> THEN TRUE
  ELSE x.e > y.e \/ (x.e = y.e /\ BCmp(x.m, y.m) > 0)

\* the float literal a.bc, written as the int abc: the float nearest to abc / 100
DCentiemes(n) == DDiv(DFromInt(n), DFromInt(100))

\* round(x, 3) in thousandths: the integer nearest to 1000 * x, a half to the even one
Round3(x) ==
  IF x.m = <<>> THEN 0
  ELSE Seul({Limb(q, 1) + Base * Limb(q, 2) :
               q \in {BRoundShr(BMulSmall(x.m, 1000), 0 - x.e, FALSE)}})

(***************************************************************************)
(* cosine_similarity.                                                      *)
(***************************************************************************)
RECURSIVE Somme(_, _)
Somme(S, f) ==
  IF S = {} THEN 0 ELSE LET x == CHOOSE x \in S : TRUE IN f[x] + Somme(S \ {x}, f)

\* math.sqrt(n) for an int n: the roots of the small n are computed once
RacineMax == 40
Racines == [n \in 1..RacineMax |-> DSqrt(DFromInt(n))]
Racine(n) == IF n \in DOMAIN Racines THEN Racines[n] ELSE DSqrt(DFromInt(n))

cosine_similarity(vec1, vec2) ==
  LET communs == DOMAIN vec1 \cap DOMAIN vec2
  IN IF communs = {} THEN Zero
     ELSE LET num == Somme(communs, [w \in communs |-> vec1[w] * vec2[w]])
              den == DMul(Racine(Somme(DOMAIN vec1, [w \in DOMAIN vec1 |-> vec1[w] * vec1[w]])),
                          Racine(Somme(DOMAIN vec2, [w \in DOMAIN vec2 |-> vec2[w] * vec2[w]])))
          IN IF den.m # <<>> THEN DDiv(DFromInt(num), den) ELSE Zero

(***************************************************************************)
(* The handler's constants and expressions.                                *)
(***************************************************************************)
mots_forts ==
  <<<<"l", "i", "n", "u", "x">>, <<"r", "e", "c", "o", "n", "d", "i", "t", "i", "o", "n", "n", "e", "m", "e", "n",
      "t">>, <<"n", "i", "r", "d">>, <<"p", "r", "i", "m", "t", "u", "x">>, <<"t", "c", "h", "a", "p">>, <<"é", "c", "o", "l", "o", "g", "i", "q", "u", "e">>,
    <<"l", "i", "b", "r", "e">>, <<"i", "n", "c", "l", "u", "s", "i", "f">>, <<"d", "u", "r", "a", "b", "l", "e">>, <<"o", "b", "s", "o", "l", "e", "s", "c", "e", "n", "c", "e">>, <<"f", "o", "r", "g", "e">>>>

\* the literals 0.18 and 0.12, and the length 600
BonusMotFort == DCentiemes(18)
Seuil == DCentiemes(12)
LongueurMax == 600

\* the number of times "score += 0.18" runs for one entry
NbMotsForts(quest) ==
  Cardinality({k \in 1..Len(mots_forts) : Contient(lower(quest), mots_forts[k])})

\* "score += 0.18", n times
RECURSIVE AjouterBonus(_, _)
AjouterBonus(score, n) ==
  IF n = 0 THEN score ELSE AjouterBonus(DAdd(score, BonusMotFort), n - 1)

\* the variant of ScoreEntree whose bonus counts only the strong terms of the chunk
ScoreEntreeParChunk(vq, vc, quest) ==
  AjouterBonus(cosine_similarity(vq, vc),
               Cardinality({k \in 1..Len(mots_forts) :
                              Contient(lower(quest), mots_forts[k]) /\ mots_forts[k] \in DOMAIN vc}))

\* the score of one entry: cosine_similarity, then the bonus loop
ScoreEntree(vq, vc, quest) == AjouterBonus(cosine_similarity(vq, vc), NbMotsForts(quest))

\* the variant of Meilleur that also replaces on an equal score
MeilleurOuEgal(score, best) == ~DGT(best, score)

\* if score > meilleur_score
Meilleur(score, best) == DGT(score, best)

\* the variant of Accepte that accepts a score equal to the threshold
AccepteEgal(score) == ~DGT(Seuil, score)

\* the variant of Accepte with no threshold
AccepteToujours(score) == TRUE

\* if meilleur_score > 0.12
Accepte(score) == DGT(score, Seuil)

\* texte[:600].rsplit(' ', 1)[0] + "..." when len(texte) > 600
Tronquer(t) ==
  IF Len(t) > LongueurMax
  THEN LET tete == SubSeq(t, 1, LongueurMax)
           espaces == {k \in 1..Len(tete) : tete[k] = " "}
       IN (IF espaces = {} THEN tete ELSE SubSeq(tete, 1, Max(espaces) - 1))
            \o <<".", ".", ".">>
  ELSE t

\* the variant of EstVide that never rejects
JamaisVide(quest) == FALSE

\* if not question
EstVide(quest) == quest = <<>>

None == [none |-> TRUE]

ContexteSecours ==
  <<"L", "a", " ", "d", "é", "m", "a", "r", "c", "h", "e", " ", "N", "I", "R", "D", " ",
    "p", "r", "o", "m", "e", "u", "t", " ", "u", "n", " ", "n", "u", "m", "é", "r", "i",
    "q", "u", "e", " ", "I", "n", "c", "l", "u", "s", "i", "f", ",", " ", "R", "e", "s",
    "p", "o", "n", "s", "a", "b", "l", "e", " ", "e", "t", " ", "D", "u", "r", "a", "b",
    "l", "e", " ", "d", "a", "n", "s", " ", "l", "e", "s", " ", "é", "t", "a", "b", "l",
    "i", "s", "s", "e", "m", "e", "n", "t", "s", " ", "s", "c", "o", "l", "a", "i", "r",
    "e", "s", " ", "v", "i", "a", " ", "L", "i", "n", "u", "x", ",", " ", "l", "e", " ",
    "r", "e", "c", "o", "n", "d", "i", "t", "i", "o", "n", "n", "e", "m", "e", "n", "t",
    " ", "e", "t", " ", "l", "e", "s", " ", "l", "o", "g", "i", "c", "i", "e", "l", "s",
    " ", "l", "i", "b", "r", "e", "s", ".">>

\* the ReponseNIRD of the else branch
ReponseSecours(quest) ==
  [question |-> quest, contexte |-> ContexteSecours, confiance |-> 0, chunk_id |-> -1,
   source_url |-> "https://nird.forge.apps.education.fr/", source_title |-> "Accueil"]

\* the ReponseNIRD of the if branch
ReponseMatch(quest, t, score, chunk) ==
  [question |-> quest, contexte |-> t, confiance |-> Round3(score),
   chunk_id |-> chunk.chunk_id, source_url |-> chunk.source_url,
   source_title |-> chunk.source_title]

\* the variant of Cadre in which every call uses the same accumulators
CadrePartage(t) == 1

\* the frame that holds the locals meilleur_score and meilleur_chunk of worker t's call
Cadre(t) == t

(***************************************************************************)
(* Inputs: chunk records, corpora and questions.                           *)
(***************************************************************************)
Rep(car, n) == [k \in 1..n |-> car]

ChunkPilier ==
  [chunk_id |-> 1,
   text |-> <<"L", "e", " ", "r", "e", "c", "o", "n", "d", "i", "t", "i", "o", "n", "n", "e",
      "m", "e", "n", "t", " ", "L", "i", "n", "u", "x", " ", "e", "s", "t", " ", "u", "n",
      " ", "p", "i", "l", "i", "e", "r", " ", "d", "u", " ", "n", "u", "m", "é", "r", "i",
      "q", "u", "e", " ", "d", "u", "r", "a", "b", "l", "e">>,
   source_url |-> "https://x", source_title |-> "A"]
ChunkFruits ==
  [chunk_id |-> 2, text |-> <<"p", "o", "m", "m", "e", " ", "p", "o", "i", "r", "e">>,
   source_url |-> "https://fruits", source_title |-> "Fruits"]
ChunkFruitsBis ==
  [chunk_id |-> 3, text |-> <<" ", "P", "o", "i", "r", "e", ",", " ", "p", "o", "m", "m", "e", " ", "!", "\n">>,
   source_url |-> "https://fruits/bis", source_title |-> "Fruits bis"]
\* the vector of ChunkFruits three times: the same direction, another rounding of the cosine
ChunkFruitsTriple ==
  [chunk_id |-> 10, text |-> <<"p", "o", "i", "r", "e", " ", "p", "o", "m", "m", "e", " ", "p", "o", "i", "r",
      "e", " ", "p", "o", "m", "m", "e", " ", "p", "o", "i", "r", "e", " ", "p", "o", "m",
      "m", "e">>,
   source_url |-> "https://fruits/triple", source_title |-> "Fruits triple"]
\* with QuestionSeuil: num = 3, q = 25, c = 25, the cosine is exactly 0.12
ChunkSeuil ==
  [chunk_id |-> 4,
   text |-> <<"p", "o", "m", "m", "e", " ", "f", "i", "g", "u", "e", " ", "f", "i", "g", "u",
      "e", " ", "f", "i", "g", "u", "e", " ", "f", "i", "g", "u", "e", " ", "d", "a", "t",
      "t", "e", " ", "d", "a", "t", "t", "e", " ", "m", "e", "l", "o", "n", " ", "m", "e",
      "l", "o", "n">>,
   source_url |-> "https://seuil", source_title |-> "Seuil"]
\* 650 characters, a space at place 590
ChunkLong ==
  [chunk_id |-> 5, text |-> Rep("a", 589) \o <<" ">> \o Rep("b", 60),
   source_url |-> "https://long", source_title |-> "Long"]
\* 650 characters, a tab at place 590 and no space
ChunkLongTab ==
  [chunk_id |-> 6, text |-> Rep("a", 589) \o <<"\t">> \o Rep("b", 60),
   source_url |-> "https://tab", source_title |-> "Tab"]

ChunkLibrary ==
  {ChunkPilier, ChunkFruits, ChunkFruitsBis, ChunkFruitsTriple, ChunkSeuil, ChunkLong,
   ChunkLongTab}

\* records that lack a field
ChunkSansTexte == [chunk_id |-> 7, source_url |-> "https://y", source_title |-> "Y"]
ChunkSansUrl == [chunk_id |-> 8, text |-> <<"p", "o", "m", "m", "e", " ", "k", "i", "w", "i">>, source_title |-> "Z"]
ChunkSansTitre == [chunk_id |-> 9, text |-> <<"k", "i", "w", "i">>, source_url |-> "https://w"]

ChunkLibraryBrut == {ChunkFruits, ChunkSansTexte, ChunkSansUrl, ChunkSansTitre}

\* the sequences of at most n distinct records of lib
Corpora(lib, n) ==
  {s \in UNION {[1..k -> lib] : k \in 0..n} :
     \A a, b \in 1..Len(s) : a # b => s[a] # s[b]}

QuestionSeuil == <<"p", "o", "m", "m", "e", " ", "p", "o", "m", "m", "e", " ", "p", "o", "m", "m",
      "e", " ", "k", "i", "w", "i", " ", "k", "i", "w", "i", " ", "k", "i", "w", "i", " ",
      "k", "i", "w", "i">>
QuestionScenario == <<"C", "o", "m", "m", "e", "n", "t", " ", "f", "a", "i", "r", "e", " ", "d", "u",
      " ", "r", "e", "c", "o", "n", "d", "i", "t", "i", "o", "n", "n", "e", "m", "e", "n",
      "t", " ", "?">>
QuestionPilier == <<"L", "i", "n", "u", "x", " ", "r", "e", "c", "o", "n", "d", "i", "t", "i", "o",
      "n", "n", "e", "m", "e", "n", "t", " ", "p", "i", "l", "i", "e", "r", " ", "n", "u",
      "m", "é", "r", "i", "q", "u", "e", " ", "d", "u", "r", "a", "b", "l", "e">>

QuestionLibrary ==
  {QuestionSeuil, QuestionScenario, QuestionPilier,
   <<"p", "o", "m", "m", "e">>, <<" ", "L", "a", " ", "P", "O", "M", "M", "E", " ", "e", "t", " ", "l", "a", " ",
      "p", "o", "i", "r", "e", " ">>, <<"l", "i", "n", "u", "x">>, <<"l", "e", " ", "l", "a", " ", "D", "E", " ", "?">>, <<"n", "i", "r", "d", " ", "?">>,
   <<"L", "I", "N", "U", "X", " ", "l", "i", "b", "r", "e">>, <<"l", "i", "n", "u", "x", "i", "e", "n">>, <<"L", "i", "n", "u", "x", " ", ":", " ", "p", "o", "m", "m", "e", ",", " ", "p",
      "o", "m", "m", "e">>, <<"l", "i", "n", "u", "x", " ", "p", "o", "m", "m", "e">>,
   <<"t", "u", "l", "i", "p", "e", " ", "p", "o", "m", "m", "e">>, <<"\t", " ", "\n">>}

QuestionAlphabet == {" ", "l"}

SmallQuestions == UNION {[1..n -> QuestionAlphabet] : n \in 0..MaxQuestionLen}

QuestionsConc == {<<"p", "o", "m", "m", "e">>, <<"l", "i", "n", "u", "x">>, <<" ">>}

QuestionsBrut == {<<"p", "o", "m", "m", "e">>, <<"k", "i", "w", "i">>, <<"n", "i", "r", "d", " ", "?">>, <<"l", "e">>, <<"\t">>}

(***************************************************************************)
(* Initial states.                                                         *)
(***************************************************************************)
InitWith(corpora, reqs, ws) ==
  /\ data \in corpora
  /\ chunks = data
  /\ vecteurs_chunks = <<>>
  /\ phase = "import"
  /\ requests = reqs
  /\ workers = ws
  /\ pc = [t \in ws |-> "Idle"]
  /\ payload = [t \in ws |-> <<>>]
  /\ question = [t \in ws |-> <<>>]
  /\ vec_q = [t \in ws |-> <<>>]
  /\ i = [t \in ws |-> 0]
  /\ meilleur_score = [t \in ws |-> Zero]
  /\ meilleur_chunk = [t \in ws |-> None]
  /\ texte = [t \in ws |-> <<>>]
  /\ response = [t \in ws |-> None]
  /\ trace = [t \in ws |-> <<>>]

\* one worker, every corpus of the library, every question
Init == InitWith(Corpora(ChunkLibrary, MaxCorpus), QuestionLibrary \cup SmallQuestions, {1})

\* two workers
InitConc ==
  InitWith(Corpora({ChunkPilier, ChunkFruits, ChunkFruitsBis}, MaxCorpus), QuestionsConc, {1, 2})

\* records that may lack a field
InitBrut == InitWith(Corpora(ChunkLibraryBrut, MaxCorpus), QuestionsBrut, {1})

(***************************************************************************)
(* Import of the module: the index.                                        *)
(***************************************************************************)
Indexation ==
  /\ phase = "import"
  /\ IF \E k \in 1..Len(chunks) : "text" \notin DOMAIN chunks[k]
     THEN /\ phase' = "import_failed"
          /\ UNCHANGED vecteurs_chunks
     ELSE /\ vecteurs_chunks' =
               [k \in 1..Len(chunks) |-> nettoyer_et_vectoriser(chunks[k].text)]
          /\ phase' = "serving"
  /\ UNCHANGED <<data, chunks, requests, workers, pc, payload, question, vec_q, i,
                 meilleur_score, meilleur_chunk, texte, response, trace>>

(***************************************************************************)
(* chercher_dans_nird, one step at a time.                                 *)
(***************************************************************************)
\* the step of the query a position belongs to
Etape(to) == IF to \in {"ShapedMatch", "ShapedFallback"} THEN "Shaped" ELSE to

Step(t, to) ==
  /\ pc' = [pc EXCEPT ![t] = to]
  /\ trace' = [trace EXCEPT ![t] = Append(@, Etape(to))]

\* question = payload.question.strip()
Receive(t) ==
  /\ phase = "serving"
  /\ pc[t] = "Idle"
  /\ \E p \in requests :
       /\ payload' = [payload EXCEPT ![t] = p]
       /\ question' = [question EXCEPT ![t] = strip(p)]
  /\ Step(t, "Received")
  /\ UNCHANGED <<data, chunks, vecteurs_chunks, phase, requests, workers, vec_q, i,
                 meilleur_score, meilleur_chunk, texte, response>>

\* raise HTTPException(status_code=400, detail="Question vide")
Reject(t) ==
  /\ pc[t] = "Received"
  /\ EstVide(question[t])
  /\ Step(t, "Rejected")
  /\ UNCHANGED <<data, chunks, vecteurs_chunks, phase, requests, workers, payload,
                 question, vec_q, i, meilleur_score, meilleur_chunk, texte, response>>

\* vec_q = nettoyer_et_vectoriser(question); meilleur_score = 0.0; meilleur_chunk = None
Vectorize(t) ==
  /\ pc[t] = "Received"
  /\ ~EstVide(question[t])
  /\ vec_q' = [vec_q EXCEPT ![t] = nettoyer_et_vectoriser(question[t])]
  /\ meilleur_score' = [meilleur_score EXCEPT ![Cadre(t)] = Zero]
  /\ meilleur_chunk' = [meilleur_chunk EXCEPT ![Cadre(t)] = None]
  /\ i' = [i EXCEPT ![t] = 0]
  /\ Step(t, "Vectorized")
  /\ UNCHANGED <<data, chunks, vecteurs_chunks, phase, requests, workers, payload,
                 question, texte, response>>

\* one iteration of the for loop
ScoreStep(t) ==
  /\ pc[t] \in {"Vectorized", "Scoring"}
  /\ i[t] < Len(vecteurs_chunks)
  /\ LET score == ScoreEntree(vec_q[t], vecteurs_chunks[i[t] + 1], question[t])
     IN IF Meilleur(score, meilleur_score[Cadre(t)])
        THEN /\ meilleur_score' = [meilleur_score EXCEPT ![Cadre(t)] = score]
             /\ meilleur_chunk' = [meilleur_chunk EXCEPT ![Cadre(t)] = chunks[i[t] + 1]]
        ELSE UNCHANGED <<meilleur_score, meilleur_chunk>>
  /\ i' = [i EXCEPT ![t] = @ + 1]
  /\ pc' = [pc EXCEPT ![t] = "Scoring"]
  /\ UNCHANGED <<data, chunks, vecteurs_chunks, phase, requests, workers, payload,
                 question, vec_q, texte, response, trace>>

\* the for loop is exhausted
ScanDone(t) ==
  /\ pc[t] \in {"Vectorized", "Scoring"}
  /\ i[t] >= Len(vecteurs_chunks)
  /\ Step(t, "Scored")
  /\ UNCHANGED <<data, chunks, vecteurs_chunks, phase, requests, workers, payload,
                 question, vec_q, i, meilleur_score, meilleur_chunk, texte, response>>

\* if meilleur_score > 0.12
Decide(t) ==
  /\ pc[t] = "Scored"
  /\ Step(t, IF Accepte(meilleur_score[Cadre(t)]) THEN "Matched" ELSE "Unmatched")
  /\ UNCHANGED <<data, chunks, vecteurs_chunks, phase, requests, workers, payload,
                 question, vec_q, i, meilleur_score, meilleur_chunk, texte, response>>

\* texte = meilleur_chunk["text"].strip(), then the truncation
ShapeMatch(t) ==
  /\ pc[t] = "Matched"
  /\ LET chunk == meilleur_chunk[Cadre(t)]
     IN IF chunk = None
        THEN Step(t, "TypeError") /\ UNCHANGED texte
        ELSE IF "text" \notin DOMAIN chunk
        THEN Step(t, "KeyError") /\ UNCHANGED texte
        ELSE /\ texte' = [texte EXCEPT ![t] = Tronquer(strip(chunk.text))]
             /\ Step(t, "ShapedMatch")
  /\ UNCHANGED <<data, chunks, vecteurs_chunks, phase, requests, workers, payload,
                 question, vec_q, i, meilleur_score, meilleur_chunk, response>>

\* the contexte of the else branch
ShapeFallback(t) ==
  /\ pc[t] = "Unmatched"
  /\ texte' = [texte EXCEPT ![t] = ContexteSecours]
  /\ Step(t, "ShapedFallback")
  /\ UNCHANGED <<data, chunks, vecteurs_chunks, phase, requests, workers, payload,
                 question, vec_q, i, meilleur_score, meilleur_chunk, response>>

\* return ReponseNIRD(...)
Respond(t) ==
  /\ pc[t] \in {"ShapedMatch", "ShapedFallback"}
  /\ LET chunk == meilleur_chunk[Cadre(t)]
     IN IF pc[t] = "ShapedMatch"
        THEN IF {"chunk_id", "source_url", "source_title"} \subseteq DOMAIN chunk
             THEN /\ response' = [response EXCEPT ![t] =
                        ReponseMatch(question[t], texte[t], meilleur_score[Cadre(t)], chunk)]
                  /\ Step(t, "Returned")
             ELSE Step(t, "KeyError") /\ UNCHANGED response
        ELSE /\ response' = [response EXCEPT ![t] = ReponseSecours(question[t])]
             /\ Step(t, "Returned")
  /\ UNCHANGED <<data, chunks, vecteurs_chunks, phase, requests, workers, payload,
                 question, vec_q, i, meilleur_score, meilleur_chunk, texte>>

\* the call is over: its locals are gone, the worker takes the next request
Finish(t) ==
  /\ pc[t] \in {"Returned", "Rejected", "KeyError", "TypeError"}
  /\ pc' = [pc EXCEPT ![t] = "Idle"]
  /\ payload' = [payload EXCEPT ![t] = <<>>]
  /\ question' = [question EXCEPT ![t] = <<>>]
  /\ vec_q' = [vec_q EXCEPT ![t] = <<>>]
  /\ i' = [i EXCEPT ![t] = 0]
  /\ meilleur_score' = [meilleur_score EXCEPT ![Cadre(t)] = Zero]
  /\ meilleur_chunk' = [meilleur_chunk EXCEPT ![Cadre(t)] = None]
  /\ texte' = [texte EXCEPT ![t] = <<>>]
  /\ response' = [response EXCEPT ![t] = None]
  /\ trace' = [trace EXCEPT ![t] = <<>>]
  /\ UNCHANGED <<data, chunks, vecteurs_chunks, phase, requests, workers>>

Next ==
  \/ Indexation
  \/ \E t \in workers : Receive(t)
  \/ \E t \in workers : Reject(t)
  \/ \E t \in workers : Vectorize(t)
  \/ \E t \in workers : ScoreStep(t)
  \/ \E t \in workers : ScanDone(t)
  \/ \E t \in workers : Decide(t)
  \/ \E t \in workers : ShapeMatch(t)
  \/ \E t \in workers : ShapeFallback(t)
  \/ \E t \in workers : Respond(t)
  \/ \E t \in workers : Finish(t)

Spec == Init /\ [][Next]_vars
SpecConc == InitConc /\ [][Next]_vars
SpecBrut == InitBrut /\ [][Next]_vars

(***************************************************************************)
(* What the properties speak of.                                           *)
(***************************************************************************)
\* the positions after the for loop
ApresScan == {"Scored", "Matched", "Unmatched", "ShapedMatch", "ShapedFallback", "Returned"}

\* the boosted score of every index entry, for worker t's question
RECURSIVE ScoresJusqua(_, _)
ScoresJusqua(t, n) ==
  IF n = 0 THEN <<>>
  ELSE Append(ScoresJusqua(t, n - 1), ScoreEntree(vec_q[t], vecteurs_chunks[n], question[t]))

Scores(t) == ScoresJusqua(t, Len(vecteurs_chunks))

\* the entries no other entry beats
Maximaux(sc) == {k \in DOMAIN sc : \A j \in DOMAIN sc : ~DGT(sc[j], sc[k])}

\* the raw cosine similarity of every index entry
RECURSIVE BrutsJusqua(_, _)
BrutsJusqua(t, n) ==
  IF n = 0 THEN <<>>
  ELSE Append(BrutsJusqua(t, n - 1), cosine_similarity(vec_q[t], vecteurs_chunks[n]))

Bruts(t) == BrutsJusqua(t, Len(vecteurs_chunks))

\* the strong terms that occur in the lowercased question
MotsFortsDans(quest) ==
  {m \in {mots_forts[k] : k \in 1..Len(mots_forts)} : Contient(lower(quest), m)}

EstMatch(t) == pc[t] = "Returned" /\ response[t].chunk_id # -1

\* the query run alone: the loop as a fold over the index, then the two branches
RECURSIVE ScanSeul(_, _, _, _)
ScanSeul(vq, quest, k, best) ==
  IF k > Len(vecteurs_chunks) THEN best
  ELSE LET score == ScoreEntree(vq, vecteurs_chunks[k], quest)
       IN ScanSeul(vq, quest, k + 1,
                   IF DGT(score, best.score) THEN [score |-> score, chunk |-> chunks[k]]
                   ELSE best)

ReponseSeule(quest) ==
  LET best == ScanSeul(nettoyer_et_vectoriser(quest), quest, 1,
                       [score |-> Zero, chunk |-> None])
  IN IF DGT(best.score, Seuil)
     THEN ReponseMatch(quest, Tronquer(strip(best.chunk.text)), best.score, best.chunk)
     ELSE ReponseSecours(quest)

(***************************************************************************)
(* C1.  A returned response is a Match (the winning chunk's chunk_id,      *)
(* source_url and source_title, the maximum score as confidence) exactly   *)
(* when the maximum boosted score over the index entries is strictly       *)
(* greater than 0.12; otherwise, also at exactly 0.12, it is the fixed     *)
(* fallback answer (chunk_id -1, confiance 0.0, fixed URL and title).      *)
(***************************************************************************)
C1_MatchIffAboveSeuil ==
  \A t \in workers :
    pc[t] = "Returned" =>
      \A sc \in {Scores(t)} :
        \A gagnants \in {{k \in Maximaux(sc) : DGT(sc[k], Seuil)}} :
          IF gagnants # {}
          THEN \E k \in gagnants :
                 /\ response[t].chunk_id = chunks[k].chunk_id
                 /\ response[t].source_url = chunks[k].source_url
                 /\ response[t].source_title = chunks[k].source_title
                 /\ response[t].confiance = Round3(sc[k])
          ELSE /\ response[t] = ReponseSecours(question[t])
               /\ response[t].chunk_id = -1
               /\ response[t].confiance = 0

\* a fallback answer returned for a best score of exactly 0.12
C1_Witness ==
  \E t \in workers :
    /\ pc[t] = "Returned"
    /\ response[t].chunk_id = -1
    /\ \E k \in DOMAIN Scores(t) :
         /\ Bruts(t)[k] # Zero
         /\ Scores(t)[k] = Seuil

(***************************************************************************)
(* C2.  On a Match the returned chunk has the greatest score of all index  *)
(* entries, and among the entries that share the greatest score it is the  *)
(* first in corpus order.                                                  *)
(***************************************************************************)
C2_FirstMaxWins ==
  \A t \in workers :
    EstMatch(t) =>
      \A sc \in {Scores(t)} : response[t].chunk_id = chunks[Min(Maximaux(sc))].chunk_id

\* a Match on a corpus where two entries share the greatest score
C2_Witness ==
  \E t \in workers :
    /\ EstMatch(t)
    /\ Cardinality(Maximaux(Scores(t))) >= 2
    /\ Bruts(t)[1] # Zero

(***************************************************************************)
(* C3.  Within one query the boost is the same for every index entry: 0.18 *)
(* is added once per strong term that occurs in the lowercased question.   *)
(* The boost never reverses the order of two entries, and the chunk the    *)
(* scan selects is the first entry of greatest boosted score.  That is the *)
(* first entry of greatest raw cosine similarity, unless the rounding of   *)
(* the additions makes the boosted score of an earlier entry, of smaller   *)
(* raw similarity, equal to the greatest one: then the earlier entry is    *)
(* selected.  With a positive boost and a non-empty corpus a chunk is      *)
(* always selected.                                                        *)
(***************************************************************************)
C3_BoostUniform ==
  \A t \in workers :
    pc[t] = "Scored" =>
      \A sc \in {Scores(t)}, br \in {Bruts(t)}, n \in {Cardinality(MotsFortsDans(question[t]))} :
        /\ \A k \in DOMAIN sc : sc[k] = AjouterBonus(br[k], n)
        /\ \A j, k \in DOMAIN sc : DGT(sc[j], sc[k]) => DGT(br[j], br[k])
        /\ meilleur_chunk[Cadre(t)] # None =>
             \A w \in {Min(Maximaux(sc))}, r \in {Min(Maximaux(br))} :
               /\ meilleur_chunk[Cadre(t)] = chunks[w]
               /\ w = r \/ (w < r /\ sc[w] = sc[r] /\ DGT(br[r], br[w]))
        /\ n > 0 /\ chunks # <<>> => meilleur_chunk[Cadre(t)] # None

\* the statement without the exception: the chunk selected is always the first entry of
\* greatest raw cosine similarity
C3_BoostKeepsWinner ==
  \A t \in workers :
    pc[t] = "Scored" /\ meilleur_chunk[Cadre(t)] # None =>
      meilleur_chunk[Cadre(t)] = chunks[Min(Maximaux(Bruts(t)))]

\* a boosted query that selects the first entry although the second has the greater raw
\* similarity: the two boosted scores are the same float
C3_Witness ==
  \E t \in workers :
    /\ pc[t] = "Scored"
    /\ MotsFortsDans(question[t]) # {}
    /\ Len(chunks) = 2
    /\ meilleur_chunk[Cadre(t)] = chunks[1]
    /\ DGT(Bruts(t)[2], Bruts(t)[1])
    /\ Scores(t)[1] = Scores(t)[2]

(***************************************************************************)
(* C4.  The confiance of every response lies between 0.0 and 1.0.          *)
(***************************************************************************)
C4_ConfianceInUnitRange ==
  \A t \in workers :
    pc[t] = "Returned" => response[t].confiance >= 0 /\ response[t].confiance <= 1000

(***************************************************************************)
(* C5.  Building the index and answering a query never fail on a record    *)
(* that lacks a field: every input maps to a response, never an exception. *)
(***************************************************************************)
C5_NeverFails ==
  /\ phase # "import_failed"
  /\ \A t \in workers : pc[t] \notin {"KeyError", "TypeError"}

(***************************************************************************)
(* C6.  On a Match a text of at most 600 characters is returned unchanged; *)
(* a longer one is returned as a prefix of at most 600 characters followed *)
(* by "...", and the cut never falls in the middle of a word.              *)
(***************************************************************************)
C6_NeverCutsAWord ==
  \A t \in workers :
    EstMatch(t) =>
      LET plein == strip(meilleur_chunk[Cadre(t)].text)
          ctx == response[t].contexte
      IN IF Len(plein) <= LongueurMax THEN ctx = plein
         ELSE \E n \in 0..LongueurMax :
                /\ ctx = SubSeq(plein, 1, n) \o <<".", ".", ".">>
                /\ ~(n >= 1 /\ IsWordChar(plein[n]) /\ IsWordChar(plein[n + 1]))

(***************************************************************************)
(* C7.  A question whose words are all removed by the vectorizer has       *)
(* similarity 0.0 with every entry and gets the fallback answer: no strong *)
(* term occurs in it, since a strong term is a run of word characters      *)
(* longer than 2 that no stopword contains (a fact about the two lists,    *)
(* looked at once, before the import).                                     *)
(***************************************************************************)
C7_FilteredQuestionFallsBack ==
  /\ phase = "import" =>
       \A k \in 1..Len(mots_forts) :
         /\ Len(mots_forts[k]) > 2
         /\ \A j \in 1..Len(mots_forts[k]) : IsWordChar(mots_forts[k][j])
         /\ \A w \in stopwords : ~Contient(w, mots_forts[k])
  /\ \A t \in workers :
       pc[t] \in ApresScan /\ vec_q[t] = <<>> =>
         /\ \A k \in DOMAIN Bruts(t) : Bruts(t)[k] = Zero
         /\ MotsFortsDans(question[t]) = {}
         /\ meilleur_chunk[Cadre(t)] = None
         /\ pc[t] = "Returned" => response[t] = ReponseSecours(question[t])

\* a question made of stopwords answered on a non-empty corpus
C7_Witness ==
  \E t \in workers :
    /\ pc[t] = "Returned"
    /\ vec_q[t] = <<>>
    /\ DebutsMots(question[t]) # {}
    /\ chunks # <<>>

(***************************************************************************)
(* C8.  No query writes the index, and under any interleaving of queries   *)
(* each response is the one the query gives when run alone on the same     *)
(* corpus and question.                                                    *)
(***************************************************************************)
C8_QueriesIndependent ==
  /\ chunks = data
  /\ phase = "serving" =>
       vecteurs_chunks = [k \in 1..Len(data) |-> nettoyer_et_vectoriser(data[k].text)]
  /\ \A t \in workers :
       /\ pc[t] = "Returned" => response[t] = ReponseSeule(question[t])
       /\ pc[t] \in {"Matched", "ShapedMatch"} => ReponseSeule(question[t]).chunk_id # -1
       /\ pc[t] \in {"Unmatched", "ShapedFallback"} => ReponseSeule(question[t]).chunk_id = -1

\* a Match returned by one worker while another is in the middle of its scan
C8_Witness ==
  \E t, u \in workers :
    /\ t # u
    /\ EstMatch(t)
    /\ pc[u] = "Scoring"
    /\ i[u] < Len(vecteurs_chunks)
    /\ question[u] # question[t]

(***************************************************************************)
(* C9.  With an empty corpus every query returns the fallback answer,      *)
(* whether or not the question holds a strong term.                        *)
(***************************************************************************)
C9_EmptyCorpusFallsBack ==
  chunks = <<>> =>
    \A t \in workers :
      /\ pc[t] \notin {"Matched", "ShapedMatch", "KeyError", "TypeError"}
      /\ pc[t] = "Returned" => response[t] = ReponseSecours(question[t])

\* a question with a strong term answered on the empty corpus
C9_Witness ==
  \E t \in workers :
    /\ chunks = <<>>
    /\ pc[t] = "Returned"
    /\ MotsFortsDans(question[t]) # {}

(***************************************************************************)
(* C10.  An empty or whitespace-only question is rejected (HTTP 400)       *)
(* before any vectorization or scoring; every accepted question goes       *)
(* through Received, Vectorized, Scored (all entries), Matched or          *)
(* Unmatched, Shaped, Returned, in that order.                             *)
(***************************************************************************)
OrdreMatch == <<"Received", "Vectorized", "Scored", "Matched", "Shaped", "Returned">>
OrdreSecours == <<"Received", "Vectorized", "Scored", "Unmatched", "Shaped", "Returned">>

EstPrefixe(s, full) == Len(s) <= Len(full) /\ s = SubSeq(full, 1, Len(s))

C10_RejectThenOrder ==
  \A t \in workers :
    LET blanc == \A k \in 1..Len(payload[t]) : payload[t][k] \in Whitespace
    IN /\ pc[t] = "Rejected" => blanc /\ trace[t] = <<"Received", "Rejected">>
       /\ blanc => pc[t] \in {"Idle", "Received", "Rejected"}
       /\ pc[t] \notin {"Idle", "Received", "Rejected"} =>
            /\ question[t] # <<>>
            /\ EstPrefixe(trace[t], OrdreMatch) \/ EstPrefixe(trace[t], OrdreSecours)
       /\ pc[t] \in ApresScan => i[t] = Len(vecteurs_chunks)
       /\ pc[t] = "Returned" => trace[t] \in {OrdreMatch, OrdreSecours}

\* a question of whitespace only, rejected
C10_Witness ==
  \E t \in workers :
    /\ pc[t] = "Rejected"
    /\ payload[t] # <<>>
    /\ vec_q[t] = <<>>

====
